---- MODULE Spec2Model ----
(***************************************************************************)
(* Model of vb_crawler.py: the module-level construction of the Supabase   *)
(* client, crawl_venturebeat(), save_to_supabase() and the __main__ block.  *)
(*                                                                         *)
(* Spec            one run of the script against a store that may already   *)
(*                 hold rows written by earlier runs.                      *)
(* SpecConcurrent  two callers of save_to_supabase() sharing the store,    *)
(*                 each calling it up to MaxCalls times with its input.    *)
(***************************************************************************)
EXTENDS Integers, Sequences, FiniteSets, TLC

\* Bounds of the model.
MaxArticles == 2      \* <article> containers in the listing document
MaxInput == 2         \* records handed to save_to_supabase by a direct caller
MaxCalls == 2         \* calls of save_to_supabase by one direct caller

Procs == {"script", "other"}
Script == "script"    \* the caller that is the __main__ block in Spec

VARIABLES
    env,              \* SUPABASE_URL / SUPABASE_KEY present in the environment
    supabase,         \* module global: "unset", "client" or "None"
    pc,               \* position of the script
    driver,           \* the Chrome session: "none", "open", "quit"
    exc,              \* the exception raised in the run, "none" if none
    article_elements, \* soup.find_all('article')
    idx,              \* position of the for loop in article_elements
    articles,         \* the list built by the loop
    crawled_articles, \* return value of crawl_venturebeat
    effects,          \* what the run did to the outside: "fetch", "read", "write"
    store,            \* the rows of table 'articles'
    spc,              \* position of each caller inside save_to_supabase
    input,            \* the articles argument of each caller
    existing_links,   \* local of save_to_supabase
    new_articles,     \* local of save_to_supabase
    outcome,          \* how the caller's current call ended
    calls,            \* calls begun by each caller
    store_at_read,    \* history: the store when the call read the existing links
    returns           \* history: the store and outcome at each return

vars == <<env, supabase, pc, driver, exc, article_elements, idx, articles,
          crawled_articles, effects, store, spc, input, existing_links,
          new_articles, outcome, calls, store_at_read, returns>>

crawlVars == <<pc, driver, exc, article_elements, idx, articles, crawled_articles>>
saveVars == <<spc, input, existing_links, new_articles, outcome, calls,
              store_at_read, returns>>

----------------------------------------------------------------------------
\* Text: a string is a sequence of characters; " " and "\n" are whitespace.

IsWs(ch) == ch \in {" ", "\n"}

RECURSIVE LStrip(_)
LStrip(s) == IF s = <<>> THEN <<>>
             ELSE IF IsWs(Head(s)) THEN LStrip(Tail(s)) ELSE s

RECURSIVE RStrip(_)
RStrip(s) == IF s = <<>> THEN <<>>
             ELSE IF IsWs(s[Len(s)]) THEN RStrip(SubSeq(s, 1, Len(s) - 1)) ELSE s

\* tag.get_text(strip=True) of a tag holding one text node
get_text(s) == RStrip(LStrip(s))

\* re.sub(r'\s+', ' ', s)
RECURSIVE CollapseWs(_)
CollapseWs(s) ==
    IF s = <<>> THEN <<>>
    ELSE IF IsWs(Head(s)) THEN <<" ">> \o CollapseWs(LStrip(Tail(s)))
    ELSE <<Head(s)>> \o CollapseWs(Tail(s))

----------------------------------------------------------------------------
\* URLs: an href is relative (origin "") or carries its own origin.

BASE_URL == "https://venturebeat.com"

urljoin(base, href) ==
    IF href.origin = "" THEN [origin |-> base, path |-> href.path] ELSE href

----------------------------------------------------------------------------
\* Timestamps: wall-clock hours relative to the hour of the run (0 is now).

\* date_str.replace('Z', '+00:00')
ReplaceZ(ds) == IF ds.suffix = "Z" THEN [ds EXCEPT !.suffix = "+00:00"] ELSE ds

\* datetime.fromisoformat raises ValueError on a malformed string
RaisesValueError(ds) == ~ds.wellformed

fromisoformat(ds) ==
    [local |-> ds.local, tzinfo |-> IF ds.suffix = "" THEN "None" ELSE ds.suffix]

\* if article_date.tzinfo is None: article_date = utc.localize(article_date)
localize(d) == IF d.tzinfo = "None" THEN [d EXCEPT !.tzinfo = "+00:00"] ELSE d

\* article_date.isoformat() of an aware datetime
isoformat(d) == [local |-> d.local, offset |-> d.tzinfo]

\* The instant a stored published_at denotes, for the recency properties.
OffsetHours(off) == IF off = "+01:00" THEN 1 ELSE 0

Instant(published_at) == published_at.local - OffsetHours(published_at.offset)

----------------------------------------------------------------------------
\* The listing document: a sequence of <article> containers.

RelA == [origin |-> "", path |-> "/category/ai/a"]
RelB == [origin |-> "", path |-> "/category/ai/b"]
AbsA == [origin |-> BASE_URL, path |-> "/category/ai/a"]

Date(t, sfx) == [wellformed |-> TRUE, local |-> t, suffix |-> sfx]
BadDate == [wellformed |-> FALSE, local |-> 0, suffix |-> ""]

Para == [present |-> TRUE, text |-> <<"x", "\n", " ", "y", " ">>]
NoPara == [present |-> FALSE, text |-> <<>>]

\* h2: the container has an <h2>; a: what the h2's first <a> is ("absent",
\* "nohref", "href"); time: "absent", "noattr" (no datetime attribute), "attr".
Base == [h2 |-> TRUE, a |-> "href", text |-> <<"A">>, href |-> RelA, p |-> Para,
         time |-> "attr", datetime |-> Date(0, "Z")]

Containers ==
    {Base}
    \cup {[Base EXCEPT !.h2 = FALSE], [Base EXCEPT !.a = "absent"],
          [Base EXCEPT !.a = "nohref"]}
    \cup {[Base EXCEPT !.text = t] : t \in {<<>>, <<" ", "B", "\n">>}}
    \cup {[Base EXCEPT !.href = h] : h \in {RelB, AbsA}}
    \cup {[Base EXCEPT !.p = NoPara]}
    \cup {[Base EXCEPT !.time = k] : k \in {"absent", "noattr"}}
    \cup {[Base EXCEPT !.href = RelB, !.datetime = d] :
            d \in {BadDate, Date(0, "+00:00"), Date(0, ""), Date(-23, "+01:00"),
                   Date(-23, "Z"), Date(-24, "Z"), Date(-25, "Z")}}

RECURSIVE SeqsUpTo(_, _)
SeqsUpTo(S, n) ==
    IF n = 0 THEN {<<>>}
    ELSE LET shorter == SeqsUpTo(S, n - 1)
         IN  shorter \cup {Append(s, x) : s \in {t \in shorter : Len(t) = n - 1}, x \in S}

\* WebDriverWait returned, so the page holds at least one <article>.
Documents == SeqsUpTo(Containers, MaxArticles) \ {<<>>}

\* The dictionary appended at lines 93-99.
ArticleRecord(c) ==
    [title |-> get_text(c.text),
     link |-> urljoin(BASE_URL, c.href),
     summary |-> CollapseWs(IF c.p.present THEN get_text(c.p.text) ELSE <<>>),
     published_at |-> isoformat(localize(fromisoformat(ReplaceZ(c.datetime)))),
     source |-> "VentureBeat"]

----------------------------------------------------------------------------
\* crawl_venturebeat

None == [isNone |-> TRUE, val |-> <<>>]
List(l) == [isNone |-> FALSE, val |-> l]

\* if crawled_articles: / if not articles:
Truthy(v) == ~v.isNone /\ v.val # <<>>

\* lines 27-32: create_client raises without a URL or a key, or on a bad one
CreateClient ==
    /\ pc = "module_init"
    /\ \E accepted \in BOOLEAN :
         supabase' = IF env.url /\ env.key /\ accepted THEN "client" ELSE "None"
    /\ pc' = "main"
    /\ UNCHANGED <<env, driver, exc, article_elements, idx, articles,
                   crawled_articles, effects, store, saveVars>>

\* CrawlEntry without the check of lines 40-42.
CrawlEntryNoCheck ==
    /\ pc = "main"
    /\ pc' = "driver_install"
    /\ UNCHANGED <<env, supabase, driver, exc, article_elements, idx, articles,
                   crawled_articles, effects, store, saveVars>>

\* lines 163, 34-42
CrawlEntry ==
    /\ pc = "main"
    /\ IF supabase # "client"
       THEN /\ crawled_articles' = None
            /\ pc' = "after_crawl"
       ELSE /\ pc' = "driver_install"
            /\ UNCHANGED crawled_articles
    /\ UNCHANGED <<env, supabase, driver, exc, article_elements, idx, articles,
                   effects, store, saveVars>>

\* An exception that leaves crawl_venturebeat reaches the module level of the
\* script, which has no handler.
Unhandled(e) ==
    /\ exc' = e
    /\ pc' = "crashed"

\* lines 108-110: except Exception: return None (the finally clause runs next)
Handled(e) ==
    /\ exc' = e
    /\ crawled_articles' = None
    /\ pc' = "finally"

\* line 51: Service(ChromeDriverManager().install()), before the try
DriverInstall ==
    /\ pc = "driver_install"
    /\ \E raised \in BOOLEAN :
         IF raised THEN Unhandled("DriverSetupError")
         ELSE pc' = "driver_start" /\ UNCHANGED exc
    /\ UNCHANGED <<env, supabase, driver, article_elements, idx, articles,
                   crawled_articles, effects, store, saveVars>>

\* line 52: webdriver.Chrome(...), before the try
DriverStart ==
    /\ pc = "driver_start"
    /\ \E raised \in BOOLEAN :
         IF raised THEN Unhandled("WebDriverException") /\ UNCHANGED driver
         ELSE pc' = "get" /\ driver' = "open" /\ UNCHANGED exc
    /\ UNCHANGED <<env, supabase, article_elements, idx, articles,
                   crawled_articles, effects, store, saveVars>>

\* line 55: driver.get(CRAWL_URL)
DriverGet ==
    /\ pc = "get"
    /\ effects' = effects \cup {"fetch"}
    /\ \E raised \in BOOLEAN :
         IF raised THEN Handled("WebDriverException")
         ELSE pc' = "wait" /\ UNCHANGED <<exc, crawled_articles>>
    /\ UNCHANGED <<env, supabase, driver, article_elements, idx, articles,
                   store, saveVars>>

\* lines 57-63: WebDriverWait(driver, 20).until(...)
Wait ==
    /\ pc = "wait"
    /\ \E result \in {"present", "TimeoutException", "WebDriverException"} :
         IF result = "present" THEN pc' = "parse" /\ UNCHANGED <<exc, crawled_articles>>
         ELSE Handled(result)
    /\ UNCHANGED <<env, supabase, driver, article_elements, idx, articles,
                   effects, store, saveVars>>

\* lines 65-70: page_source, BeautifulSoup, find_all('article')
Parse ==
    /\ pc = "parse"
    /\ \/ /\ Handled("WebDriverException")
          /\ UNCHANGED <<article_elements, idx, articles>>
       \/ /\ \E document \in Documents : article_elements' = document
          /\ articles' = <<>>
          /\ idx' = 1
          /\ pc' = "loop"
          /\ UNCHANGED <<exc, crawled_articles>>
    /\ UNCHANGED <<env, supabase, driver, effects, store, saveVars>>

\* ExtractOne with a 24 hour recency cutoff before the append.
ExtractOneRecent(c) ==
    IF ~c.h2 \/ c.a = "absent" THEN [kind |-> "continue"]
    ELSE IF c.a = "nohref" THEN [kind |-> "KeyError"]
    ELSE IF c.time = "attr"
         THEN IF RaisesValueError(ReplaceZ(c.datetime)) THEN [kind |-> "continue"]
              ELSE IF Instant(isoformat(localize(fromisoformat(ReplaceZ(c.datetime))))) > 0 - 24
                   THEN [kind |-> "append"]
                   ELSE [kind |-> "continue"]
         ELSE [kind |-> "continue"]

\* lines 73-102: the body of the loop for one container
ExtractOne(c) ==
    IF ~c.h2 \/ c.a = "absent" THEN [kind |-> "continue"]
    ELSE IF c.a = "nohref" THEN [kind |-> "KeyError"]
    ELSE IF c.time = "attr"
         THEN IF RaisesValueError(ReplaceZ(c.datetime)) THEN [kind |-> "continue"]
              ELSE [kind |-> "append"]
         ELSE [kind |-> "continue"]

\* lines 72-102: one iteration
LoopStep ==
    /\ pc = "loop"
    /\ idx <= Len(article_elements)
    /\ LET c == article_elements[idx]
           r == ExtractOne(c)
       IN  IF r.kind = "KeyError"
           THEN /\ Handled("KeyError")
                /\ UNCHANGED <<idx, articles>>
           ELSE /\ articles' = IF r.kind = "append"
                                THEN Append(articles, ArticleRecord(c)) ELSE articles
                /\ idx' = idx + 1
                /\ UNCHANGED <<pc, exc, crawled_articles>>
    /\ UNCHANGED <<env, supabase, driver, article_elements, effects, store, saveVars>>

\* lines 104-106: return articles
LoopEnd ==
    /\ pc = "loop"
    /\ idx > Len(article_elements)
    /\ crawled_articles' = List(articles)
    /\ pc' = "finally"
    /\ UNCHANGED <<env, supabase, driver, exc, article_elements, idx, articles,
                   effects, store, saveVars>>

\* Finally without driver.quit().
FinallyNoQuit ==
    /\ pc = "finally"
    /\ pc' = "after_crawl"
    /\ UNCHANGED <<env, supabase, driver, exc, article_elements, idx, articles,
                   crawled_articles, effects, store, saveVars>>

\* lines 111-113: finally: if driver: driver.quit()
Finally ==
    /\ pc = "finally"
    /\ driver' = IF driver = "open" THEN "quit" ELSE driver
    /\ pc' = "after_crawl"
    /\ UNCHANGED <<env, supabase, exc, article_elements, idx, articles,
                   crawled_articles, effects, store, saveVars>>

----------------------------------------------------------------------------
\* The table 'articles' of the store, with its unique constraint on link.

Range(seq) == {seq[i] : i \in 1..Len(seq)}

Links(seq) == {seq[i].link : i \in 1..Len(seq)}

\* .select('link').in_('link', links).execute().data, as a set of links
SelectLinks(tbl, links) == {r.link : r \in {x \in tbl : x.link \in links}}

\* Two rows of one batch with the same link: PostgreSQL rejects the whole
\* INSERT ... ON CONFLICT (link) DO UPDATE ("command cannot affect row a
\* second time") and writes nothing.
CardinalityViolation(rows) ==
    \E i, j \in 1..Len(rows) : i # j /\ rows[i].link = rows[j].link

\* .upsert(rows, on_conflict='link').execute() of a batch the store accepts:
\* a row whose link the table holds replaces that row, another is inserted.
UpsertRows(tbl, rows) ==
    {r \in tbl : r.link \notin Links(rows)} \cup Range(rows)

----------------------------------------------------------------------------
\* save_to_supabase

\* NewArticles without the filter: every article goes to the upsert.
NewArticlesUnfiltered(arts, existing) == arts

\* line 140
NewArticles(arts, existing) ==
    SelectSeq(arts, LAMBDA a : a.link \notin existing)

\* A return of save_to_supabase, by return or by the handler of line 157.
Return(p, how, tbl) ==
    /\ spc' = [spc EXCEPT ![p] = "returned"]
    /\ outcome' = [outcome EXCEPT ![p] = how]
    /\ returns' = [returns EXCEPT ![p] = Append(@, [store |-> tbl, outcome |-> how])]

\* lines 118-127
SaveEntry(p) ==
    /\ spc[p] = "entry"
    /\ IF input[p] = <<>> THEN Return(p, "no_articles", store)
       ELSE IF supabase # "client" THEN Return(p, "no_client", store)
       ELSE /\ spc' = [spc EXCEPT ![p] = "select"]
            /\ UNCHANGED <<outcome, returns>>
    /\ UNCHANGED <<env, supabase, crawlVars, effects, store, input, existing_links,
                   new_articles, calls, store_at_read>>

\* lines 131-146: the query for the existing links, then the filter
Select(p) ==
    /\ spc[p] = "select"
    /\ effects' = effects \cup {"read"}
    /\ \E fault \in BOOLEAN :
         IF fault
         THEN /\ Return(p, "store_fault", store)
              /\ UNCHANGED <<existing_links, new_articles, store_at_read>>
         ELSE LET found == SelectLinks(store, Links(input[p]))
                  fresh == NewArticles(input[p], found)
              IN  /\ existing_links' = [existing_links EXCEPT ![p] = found]
                  /\ new_articles' = [new_articles EXCEPT ![p] = fresh]
                  /\ store_at_read' = [store_at_read EXCEPT ![p] = store]
                  /\ IF fresh = <<>> THEN Return(p, "no_new", store)
                     ELSE /\ spc' = [spc EXCEPT ![p] = "upsert"]
                          /\ UNCHANGED <<outcome, returns>>
    /\ UNCHANGED <<env, supabase, crawlVars, store, input, calls>>

\* lines 149-158: the upsert of the new articles
Upsert(p) ==
    /\ spc[p] = "upsert"
    /\ effects' = effects \cup {"write"}
    /\ \E fault \in BOOLEAN :
         IF fault
         THEN Return(p, "store_fault", store) /\ UNCHANGED store
         ELSE IF CardinalityViolation(new_articles[p])
         THEN Return(p, "cardinality_violation", store) /\ UNCHANGED store
         ELSE /\ store' = UpsertRows(store, new_articles[p])
              /\ Return(p, "saved", UpsertRows(store, new_articles[p]))
    /\ UNCHANGED <<env, supabase, crawlVars, input, existing_links, new_articles,
                   calls, store_at_read>>

\* A call of save_to_supabase(articles) by a caller other than the script's
\* __main__ block; a repeated call passes the same articles.
Call(p) ==
    /\ pc = "direct"
    /\ spc[p] \in {"idle", "returned"}
    /\ calls[p] < MaxCalls
    /\ spc' = [spc EXCEPT ![p] = "entry"]
    /\ calls' = [calls EXCEPT ![p] = @ + 1]
    /\ existing_links' = [existing_links EXCEPT ![p] = {}]
    /\ new_articles' = [new_articles EXCEPT ![p] = <<>>]
    /\ UNCHANGED <<env, supabase, crawlVars, effects, store, input, outcome,
                   store_at_read, returns>>

----------------------------------------------------------------------------
\* __main__

\* lines 165-170
MainCheck ==
    /\ pc = "after_crawl"
    /\ IF Truthy(crawled_articles)
       THEN /\ pc' = "in_save"
            /\ input' = [input EXCEPT ![Script] = crawled_articles.val]
            /\ spc' = [spc EXCEPT ![Script] = "entry"]
            /\ calls' = [calls EXCEPT ![Script] = @ + 1]
       ELSE /\ pc' = "main_end"
            /\ UNCHANGED <<input, spc, calls>>
    /\ UNCHANGED <<env, supabase, driver, exc, article_elements, idx, articles,
                   crawled_articles, effects, store, existing_links, new_articles,
                   outcome, store_at_read, returns>>

\* line 168
MainAfterSave ==
    /\ pc = "in_save"
    /\ spc[Script] = "returned"
    /\ pc' = "main_end"
    /\ UNCHANGED <<env, supabase, driver, exc, article_elements, idx, articles,
                   crawled_articles, effects, store, saveVars>>

\* line 171
MainEnd ==
    /\ pc = "main_end"
    /\ pc' = "exited"
    /\ UNCHANGED <<env, supabase, driver, exc, article_elements, idx, articles,
                   crawled_articles, effects, store, saveVars>>

----------------------------------------------------------------------------
\* Specifications

\* A row an earlier run stored for the article at /category/ai/a, whose
\* headline and date have changed on the page since.
OldRow == [ArticleRecord(Base) EXCEPT !.title = <<"O">>,
                                      !.published_at = isoformat([local |-> -30, tzinfo |-> "+00:00"])]

InitialStores == {{}, {OldRow}}

InitSave ==
    /\ spc = [p \in Procs |-> "idle"]
    /\ existing_links = [p \in Procs |-> {}]
    /\ new_articles = [p \in Procs |-> <<>>]
    /\ outcome = [p \in Procs |-> "none"]
    /\ calls = [p \in Procs |-> 0]
    /\ store_at_read = [p \in Procs |-> {}]
    /\ returns = [p \in Procs |-> <<>>]

Init ==
    /\ env \in [url : BOOLEAN, key : BOOLEAN]
    /\ supabase = "unset"
    /\ pc = "module_init"
    /\ driver = "none"
    /\ exc = "none"
    /\ article_elements = <<>>
    /\ idx = 1
    /\ articles = <<>>
    /\ crawled_articles = None
    /\ effects = {}
    /\ store \in InitialStores
    /\ input = [p \in Procs |-> <<>>]
    /\ InitSave

Next ==
    \/ CreateClient
    \/ CrawlEntry
    \/ DriverInstall
    \/ DriverStart
    \/ DriverGet
    \/ Wait
    \/ Parse
    \/ LoopStep
    \/ LoopEnd
    \/ Finally
    \/ MainCheck
    \/ \E p \in Procs : SaveEntry(p) \/ Select(p) \/ Upsert(p)
    \/ MainAfterSave
    \/ MainEnd

Spec == Init /\ [][Next]_vars

\* The records direct callers pass: two links, two headlines each.
DirectRecords ==
    {ArticleRecord([Base EXCEPT !.text = t, !.href = h]) :
        t \in {<<"A">>, <<"B">>}, h \in {RelA, RelB}}

DirectInputs == SeqsUpTo(DirectRecords, MaxInput)

InitConcurrent ==
    /\ env = [url |-> TRUE, key |-> TRUE]
    /\ supabase = "client"
    /\ pc = "direct"
    /\ driver = "none"
    /\ exc = "none"
    /\ article_elements = <<>>
    /\ idx = 1
    /\ articles = <<>>
    /\ crawled_articles = None
    /\ effects = {}
    /\ store \in InitialStores
    /\ input \in [Procs -> DirectInputs]
    /\ InitSave

NextConcurrent ==
    \E p \in Procs : Call(p) \/ SaveEntry(p) \/ Select(p) \/ Upsert(p)

SpecConcurrent == InitConcurrent /\ [][NextConcurrent]_vars

----------------------------------------------------------------------------
\* Properties

RowsFor(tbl, l) == {r \in tbl : r.link = l}

\* The last record of seq with link l.
LastWith(seq, l) ==
    seq[CHOOSE i \in 1..Len(seq) :
            /\ seq[i].link = l
            /\ \A j \in 1..Len(seq) : seq[j].link = l => j <= i]

Others(p) == Procs \ {p}

NoStoreFault(p) == \A i \in 1..Len(returns[p]) : returns[p][i].outcome # "store_fault"

\* C1: when a caller has called save_to_supabase twice in succession with the
\* same records (nobody else writing, the store reachable), the store after
\* the second call is the store after the first, and the rows whose link
\* occurs in the input number as many as the input's distinct links.
C1_PersistTwiceIdempotentAndCounted ==
    \A p \in Procs :
        ( /\ Len(returns[p]) = 2
          /\ \A q \in Others(p) : calls[q] = 0
          /\ NoStoreFault(p) )
        => /\ returns[p][2].store = returns[p][1].store
           /\ Cardinality({r \in store : r.link \in Links(input[p])})
                = Cardinality(Links(input[p]))

\* Several records of the input share a link and differ in another field.
DuplicateLinksDiffering(seq) ==
    \E i, j \in 1..Len(seq) : seq[i].link = seq[j].link /\ seq[i] # seq[j]

\* C2: after save_to_supabase of an input in which records share a link and
\* differ in their fields (here: into a store that held none of its links),
\* the store holds exactly one row for every link of the input, and it is
\* the last record of the input with that link.
C2_OneRowPerLinkLastWins ==
    \A p \in Procs :
        ( /\ spc[p] = "returned"
          /\ Len(returns[p]) = 1
          /\ \A q \in Others(p) : calls[q] = 0
          /\ NoStoreFault(p)
          /\ DuplicateLinksDiffering(input[p])
          /\ \A l \in Links(input[p]) : RowsFor(store_at_read[p], l) = {} )
        => \A l \in Links(input[p]) : RowsFor(store, l) = {LastWith(input[p], l)}

\* save_to_supabase returned without an exception.
Succeeded(p) == spc[p] = "returned" /\ outcome[p] \in {"saved", "no_new"}

\* C3 as stated: after a successful save_to_supabase the row of every link of
\* the input equals the input's record for it (an existing row is updated in
\* place, a missing one is inserted).
C3_EveryInputLinkRowEqualsInput ==
    Succeeded(Script) =>
        \A l \in Links(input[Script]) :
            RowsFor(store, l) = {LastWith(input[Script], l)}

\* C3 as amended: after a successful save_to_supabase of the run, a link the
\* store held when the existing links were read keeps the row it had (it is
\* not updated), a link it did not hold has exactly one row, the input's
\* record, and no other row of the store is touched.
C3_ExistingKeptNewInserted ==
    Succeeded(Script) =>
        /\ \A l \in Links(input[Script]) :
              IF RowsFor(store_at_read[Script], l) # {}
              THEN RowsFor(store, l) = RowsFor(store_at_read[Script], l)
              ELSE /\ RowsFor(store, l) = {r \in Range(input[Script]) : r.link = l}
                   /\ Cardinality(RowsFor(store, l)) = 1
        /\ \A r \in store_at_read[Script] \cup store :
              r.link \notin Links(input[Script])
                  => (r \in store_at_read[Script] /\ r \in store)

\* A successful write of a run whose input held a link the store had, with
\* other field values, and a link it had not.
C3_Witness ==
    /\ Succeeded(Script)
    /\ outcome[Script] = "saved"
    /\ \E l \in Links(input[Script]) :
          /\ RowsFor(store_at_read[Script], l) # {}
          /\ LastWith(input[Script], l) \notin store_at_read[Script]
    /\ \E l \in Links(input[Script]) : RowsFor(store_at_read[Script], l) = {}

\* C4: with two callers of save_to_supabase whose inputs share a link, the
\* store never holds two rows with one link, and once both have returned
\* (the store reachable throughout) every link of either input has exactly
\* one row.
C4_ConcurrentRunsSafe ==
    (\E l \in Links(input["script"]) : l \in Links(input["other"]))
    => /\ \A r1, r2 \in store : r1.link = r2.link => r1 = r2
       /\ ( \A p \in Procs : calls[p] >= 1 /\ spc[p] = "returned" /\ NoStoreFault(p) )
          => \A p \in Procs : \A l \in Links(input[p]) :
                 Cardinality(RowsFor(store, l)) = 1

\* crawl_venturebeat has been left, by return or by an exception.
CrawlLeft == pc \in {"after_crawl", "in_save", "main_end", "exited", "crashed"}

\* C5: once crawl_venturebeat has been left, on whatever path, no Chrome
\* session it started is still open.
C5_SessionReleased == CrawlLeft => driver # "open"

\* A run that started the session, timed out waiting for the page, and ended.
C5_Witness == pc = "exited" /\ driver = "quit" /\ exc = "TimeoutException"

\* C6: when create_client failed, the run starts no browser session, fetches
\* no page, reads and writes nothing in the store, never calls
\* save_to_supabase, raises nothing, and is on its way to the normal end of
\* the script: until it has exited it can take a step.
C6_NoClientNoOp ==
    supabase = "None" =>
        /\ driver = "none"
        /\ effects = {}
        /\ calls[Script] = 0
        /\ exc = "none"
        /\ pc \in {"main", "after_crawl", "main_end", "exited"}
        /\ pc # "exited" => ENABLED Next

\* A run without SUPABASE_KEY that has ended.
C6_Witness == supabase = "None" /\ ~env.key /\ pc = "exited"

\* A container from which the loop can build a record: a heading with a link
\* that has an href, and a timestamp that parses.
WellFormed(c) ==
    c.h2 /\ c.a = "href" /\ c.time = "attr" /\ ~RaisesValueError(ReplaceZ(c.datetime))

\* The records of the well-formed containers of a document, in its order.
RECURSIVE ExpectedRecords(_)
ExpectedRecords(doc) ==
    IF doc = <<>> THEN <<>>
    ELSE IF WellFormed(Head(doc))
         THEN <<ArticleRecord(Head(doc))>> \o ExpectedRecords(Tail(doc))
         ELSE ExpectedRecords(Tail(doc))

\* C7: whatever other containers the parsed document holds (no heading, no
\* link, a link without href, a timestamp that does not parse), the
\* well-formed containers it holds are all returned by crawl_venturebeat, as
\* their records in document order, and nothing else is.
C7_MalformedDroppedAlone ==
    (CrawlLeft /\ ExpectedRecords(article_elements) # <<>>)
    => /\ ~crawled_articles.isNone
       /\ crawled_articles.val = ExpectedRecords(article_elements)

\* The records of the well-formed containers published after the cutoff.
RECURSIVE ExpectedRecent(_, _)
ExpectedRecent(doc, cutoff) ==
    IF doc = <<>> THEN <<>>
    ELSE IF WellFormed(Head(doc)) /\ Instant(ArticleRecord(Head(doc)).published_at) > cutoff
         THEN <<ArticleRecord(Head(doc))>> \o ExpectedRecent(Tail(doc), cutoff)
         ELSE ExpectedRecent(Tail(doc), cutoff)

\* C8 as stated, with a 24 hour window: a record is emitted if and only if
\* its published_at is strictly after now - 24h.
C8_EmittedIffAfterCutoff ==
    ~crawled_articles.isNone =>
        crawled_articles.val = ExpectedRecent(article_elements, 0 - 24)

\* C8 as amended: no recency cutoff is applied. At every point of the loop
\* the list holds the record of every well-formed container processed so
\* far, whatever its published_at, and the list returned holds the record of
\* every well-formed container of the document.
C8_NoRecencyCutoff ==
    /\ articles = ExpectedRecords(SubSeq(article_elements, 1, idx - 1))
    /\ ~crawled_articles.isNone =>
           crawled_articles.val = ExpectedRecords(article_elements)

\* A run that returned a record published 25 hours ago.
C8_Witness ==
    /\ pc = "exited"
    /\ ~crawled_articles.isNone
    /\ \E i \in 1..Len(crawled_articles.val) :
          Instant(crawled_articles.val[i].published_at) = 0 - 25

\* C9: an exception raised while the driver is set up and started, the page
\* fetched or parsed never crashes the process, and the run it was raised in
\* ends with no articles and without calling save_to_supabase.
C9_FetchParseExceptionsCaught ==
    exc # "none" =>
        /\ pc # "crashed"
        /\ pc = "exited" => (crawled_articles.isNone /\ calls[Script] = 0)

\* C10: every record the loop has built has a non-empty title and an
\* absolute link on the base origin.
C10_RecordsWellFormed ==
    \A i \in 1..Len(articles) :
        /\ articles[i].title # <<>>
        /\ articles[i].link.origin = BASE_URL

====
